---- MODULE Spec2Model ----
(***************************************************************************)
(* escape-artist (src/src/main.rs): a PTY bridge that forwards the child's *)
(* output to the terminal, feeds every byte to a vte parser whose          *)
(* callbacks (Performer) log events into a shared history and a broadcast  *)
(* channel, and WebSocket subscribers (stream_events) that replay the      *)
(* history and then stream live events in throttled batches.               *)
(*                                                                         *)
(* Threads of the program and their steps:                                 *)
(*   main thread      Launch, Spawn, LoopTop, StdinChunk                   *)
(*   output thread    OutRead, OutAdvance, LogSend, LogPush, OutWrite      *)
(*   web server task  WebBind                                              *)
(*   subscriber task  Connect, ReplaySend, ReplayDone, Subscribe,          *)
(*                    Recv, Deadline                                       *)
(*   environment      Tick (time), Disconnect (browser), Sigwinch          *)
(***************************************************************************)
EXTENDS Integers, Sequences, FiniteSets, TLC

\* ------------------------------------------------------------------ bounds
\* total number of bytes the child writes to the PTY in one behaviour
MaxRead == 3
\* largest chunk one read() of the PTY master returns
MaxChunk == 2
\* number of chunks the user types on stdin in one behaviour
MaxStdin == 2
\* number of WebSocket connections
NumSubs == 2
\* milliseconds that pass in one Tick of the clock
TickMs == 5
\* longest input given to the test helper parse_bytes
MaxParse == 4

\* ------------------------------------------------- constants of the program
\* events.chunks(100), scaled down so that a history spans several chunks
ChunkSize == 2
\* broadcast::channel(10000), scaled down so that a receiver can lag
Capacity == 2
\* THROTTLE_DURATION = Duration::from_millis(10)
THROTTLE_DURATION == 10
\* the EOT byte tested by the stdin loop
EOT == 4

ESC == 27
LF == 10
CR == 13
BEL == 7

Subs == 1..NumSubs

Min(a, b) == IF a < b THEN a ELSE b
Max(a, b) == IF a > b THEN a ELSE b

RECURSIVE Flatten(_)
Flatten(ss) == IF ss = <<>> THEN <<>> ELSE Head(ss) \o Flatten(Tail(ss))

IsPrefix(s, t) == Len(s) <= Len(t) /\ SubSeq(t, 1, Len(s)) = s

\* all sequences over S of length lo..hi
SeqsOf(S, lo, hi) == UNION {[1..n -> S] : n \in lo..hi}

\* ------------------------------------------------------ the vte parser
\* vte::Parser as driven by statemachine.advance(&mut performer, byte), for
\* 7-bit input: the state table of the crate (Paul Williams' VT500 parser).

\* C0 bytes that the table executes in place (0x18, 0x1a, 0x1b are "anywhere")
C0Exec(b) == b \in (0..23) \cup {25} \cup (28..31)

NewParser ==
    [state |-> "Ground", params |-> <<>>, sub |-> <<>>, param |-> 0,
     intermediates |-> <<>>, ignoring |-> FALSE, osc |-> <<>>, oscCur |-> <<>>]

\* <<action, next state>>; "Anywhere" keeps the state and runs no exit/entry action
Transition(st, b) ==
    IF b \in {24, 26} THEN <<"Execute", "Ground">>
    ELSE IF b = ESC THEN <<"None", "Escape">>
    ELSE CASE st = "Ground" ->
              IF C0Exec(b) THEN <<"Execute", "Anywhere">> ELSE <<"Print", "Anywhere">>
         [] st = "Escape" ->
              IF C0Exec(b) THEN <<"Execute", "Anywhere">>
              ELSE IF b = 127 THEN <<"Ignore", "Anywhere">>
              ELSE IF b \in 32..47 THEN <<"Collect", "EscapeIntermediate">>
              ELSE IF b = 91 THEN <<"None", "CsiEntry">>
              ELSE IF b = 93 THEN <<"None", "OscString">>
              ELSE IF b = 80 THEN <<"None", "DcsEntry">>
              ELSE IF b \in {88, 94, 95} THEN <<"None", "SosPmApcString">>
              ELSE <<"EscDispatch", "Ground">>
         [] st = "EscapeIntermediate" ->
              IF C0Exec(b) THEN <<"Execute", "Anywhere">>
              ELSE IF b = 127 THEN <<"Ignore", "Anywhere">>
              ELSE IF b \in 32..47 THEN <<"Collect", "Anywhere">>
              ELSE <<"EscDispatch", "Ground">>
         [] st = "CsiEntry" ->
              IF C0Exec(b) THEN <<"Execute", "Anywhere">>
              ELSE IF b = 127 THEN <<"Ignore", "Anywhere">>
              ELSE IF b \in 32..47 THEN <<"Collect", "CsiIntermediate">>
              ELSE IF b \in 48..59 THEN <<"Param", "CsiParam">>
              ELSE IF b \in 60..63 THEN <<"Collect", "CsiParam">>
              ELSE <<"CsiDispatch", "Ground">>
         [] st = "CsiParam" ->
              IF C0Exec(b) THEN <<"Execute", "Anywhere">>
              ELSE IF b = 127 THEN <<"Ignore", "Anywhere">>
              ELSE IF b \in 32..47 THEN <<"Collect", "CsiIntermediate">>
              ELSE IF b \in 48..59 THEN <<"Param", "Anywhere">>
              ELSE IF b \in 60..63 THEN <<"None", "CsiIgnore">>
              ELSE <<"CsiDispatch", "Ground">>
         [] st = "CsiIntermediate" ->
              IF C0Exec(b) THEN <<"Execute", "Anywhere">>
              ELSE IF b = 127 THEN <<"Ignore", "Anywhere">>
              ELSE IF b \in 32..47 THEN <<"Collect", "Anywhere">>
              ELSE IF b \in 48..63 THEN <<"None", "CsiIgnore">>
              ELSE <<"CsiDispatch", "Ground">>
         [] st = "CsiIgnore" ->
              IF C0Exec(b) THEN <<"Execute", "Anywhere">>
              ELSE IF b \in (32..63) \cup {127} THEN <<"Ignore", "Anywhere">>
              ELSE <<"None", "Ground">>
         [] st = "DcsEntry" ->
              IF C0Exec(b) \/ b = 127 THEN <<"Ignore", "Anywhere">>
              ELSE IF b \in 32..47 THEN <<"Collect", "DcsIntermediate">>
              ELSE IF b \in 48..59 THEN <<"Param", "DcsParam">>
              ELSE IF b \in 60..63 THEN <<"Collect", "DcsParam">>
              ELSE <<"None", "DcsPassthrough">>
         [] st = "DcsParam" ->
              IF C0Exec(b) \/ b = 127 THEN <<"Ignore", "Anywhere">>
              ELSE IF b \in 32..47 THEN <<"Collect", "DcsIntermediate">>
              ELSE IF b \in 48..59 THEN <<"Param", "Anywhere">>
              ELSE IF b \in 60..63 THEN <<"None", "DcsIgnore">>
              ELSE <<"None", "DcsPassthrough">>
         [] st = "DcsIntermediate" ->
              IF C0Exec(b) \/ b = 127 THEN <<"Ignore", "Anywhere">>
              ELSE IF b \in 32..47 THEN <<"Collect", "Anywhere">>
              ELSE IF b \in 48..63 THEN <<"None", "DcsIgnore">>
              ELSE <<"None", "DcsPassthrough">>
         [] st = "DcsPassthrough" ->
              IF b = 127 THEN <<"Ignore", "Anywhere">> ELSE <<"Put", "Anywhere">>
         [] st = "DcsIgnore" -> <<"Ignore", "Anywhere">>
         [] st = "OscString" ->
              IF b = BEL THEN <<"None", "Ground">>
              ELSE IF b < 32 THEN <<"Ignore", "Anywhere">>
              ELSE <<"OscPut", "Anywhere">>
         [] OTHER -> <<"Ignore", "Anywhere">>

\* Parser::params.push / csi_dispatch: the parameter being built closes its group
PushParam(p) == [p EXCEPT !.params = Append(@, Append(p.sub, p.param)),
                          !.sub = <<>>, !.param = 0]

\* the Clear entry action
ClearParser(p) == [p EXCEPT !.params = <<>>, !.sub = <<>>, !.param = 0,
                            !.intermediates = <<>>, !.ignoring = FALSE]

\* the parser after the action, and the Perform callbacks the action makes
PerformAction(p, action, b) ==
    CASE action = "Print" -> [p |-> p, cbs |-> <<[cb |-> "print", c |-> b]>>]
      [] action = "Execute" -> [p |-> p, cbs |-> <<[cb |-> "execute", byte |-> b]>>]
      [] action = "Put" -> [p |-> p, cbs |-> <<[cb |-> "put", byte |-> b]>>]
      [] action = "Collect" ->
           [p |-> IF Len(p.intermediates) = 2
                  THEN [p EXCEPT !.ignoring = TRUE]
                  ELSE [p EXCEPT !.intermediates = Append(@, b)],
            cbs |-> <<>>]
      [] action = "Param" ->
           [p |-> IF b = 59 THEN PushParam(p)
                  ELSE IF b = 58 THEN [p EXCEPT !.sub = Append(@, p.param), !.param = 0]
                  ELSE [p EXCEPT !.param = Min(p.param * 10 + (b - 48), 65535)],
            cbs |-> <<>>]
      [] action = "OscPut" ->
           [p |-> IF b = 59 THEN [p EXCEPT !.osc = Append(@, p.oscCur), !.oscCur = <<>>]
                  ELSE [p EXCEPT !.oscCur = Append(@, b)],
            cbs |-> <<>>]
      [] action = "CsiDispatch" ->
           LET q == PushParam(p) IN
           [p |-> q,
            cbs |-> <<[cb |-> "csi_dispatch", params |-> q.params,
                       intermediates |-> q.intermediates, ignore |-> q.ignoring, c |-> b]>>]
      [] action = "EscDispatch" ->
           [p |-> p,
            cbs |-> <<[cb |-> "esc_dispatch", intermediates |-> p.intermediates,
                       ignore |-> p.ignoring, byte |-> b]>>]
      [] OTHER -> [p |-> p, cbs |-> <<>>]

\* exit action of the state being left: Unhook, OscEnd
ExitAction(p, b) ==
    CASE p.state = "DcsPassthrough" -> [p |-> p, cbs |-> <<[cb |-> "unhook"]>>]
      [] p.state = "OscString" ->
           [p |-> p,
            cbs |-> <<[cb |-> "osc_dispatch", params |-> Append(p.osc, p.oscCur),
                       bell_terminated |-> (b = BEL)]>>]
      [] OTHER -> [p |-> p, cbs |-> <<>>]

\* entry action of the state being entered: Clear, Hook, OscStart
EntryAction(p, st, b) ==
    CASE st \in {"Escape", "CsiEntry", "DcsEntry"} -> [p |-> ClearParser(p), cbs |-> <<>>]
      [] st = "DcsPassthrough" ->
           LET q == PushParam(p) IN
           [p |-> q,
            cbs |-> <<[cb |-> "hook", params |-> q.params,
                       intermediates |-> q.intermediates, ignore |-> q.ignoring, c |-> b]>>]
      [] st = "OscString" -> [p |-> [p EXCEPT !.osc = <<>>, !.oscCur = <<>>], cbs |-> <<>>]
      [] OTHER -> [p |-> p, cbs |-> <<>>]

\* Parser::advance: the parser after byte b and the callbacks made, in order
Advance(p, b) ==
    LET t == Transition(p.state, b) IN
    IF t[2] = "Anywhere"
    THEN PerformAction(p, t[1], b)
    ELSE LET x == ExitAction(p, b)
             a == PerformAction(x.p, t[1], b)
             e == EntryAction(a.p, t[2], b)
         IN  [p |-> [e.p EXCEPT !.state = t[2]], cbs |-> x.cbs \o a.cbs \o e.cbs]

\* ------------------------------------------------- events and their DTOs
\* mutant: the event is built with an empty raw_bytes
CloneNothing(curr) == <<>>

\* raw_bytes: self.curr_cmd_bytes.clone()
CloneWindow(curr) == curr

\* impl Perform for Performer: the VteEvent a callback builds; raw_bytes is a
\* clone of curr_cmd_bytes taken when the callback runs
MakeEvent(cb, curr) ==
    CASE cb.cb = "print" -> [type |-> "Print", c |-> cb.c]
      [] cb.cb = "execute" -> [type |-> "Execute", byte |-> cb.byte]
      [] cb.cb = "hook" ->
           [type |-> "Hook", params |-> cb.params, intermediates |-> cb.intermediates,
            ignore |-> cb.ignore, c |-> cb.c, raw_bytes |-> CloneWindow(curr)]
      [] cb.cb = "put" -> [type |-> "Put", byte |-> cb.byte, raw_bytes |-> CloneWindow(curr)]
      [] cb.cb = "unhook" -> [type |-> "Unhook", raw_bytes |-> CloneWindow(curr)]
      [] cb.cb = "osc_dispatch" ->
           [type |-> "OscDispatch", params |-> cb.params,
            bell_terminated |-> cb.bell_terminated, raw_bytes |-> CloneWindow(curr)]
      [] cb.cb = "csi_dispatch" ->
           [type |-> "CsiDispatch", params |-> cb.params,
            intermediates |-> cb.intermediates, ignore |-> cb.ignore, c |-> cb.c,
            raw_bytes |-> CloneWindow(curr)]
      [] OTHER ->
           [type |-> "EscDispatch", intermediates |-> cb.intermediates,
            ignore |-> cb.ignore, byte |-> cb.byte, raw_bytes |-> CloneWindow(curr)]

\* sanitize_raw_bytes: the bytes as text, ESC replaced by the four characters \x1b
RECURSIVE sanitize_raw_bytes(_)
sanitize_raw_bytes(bytes) ==
    IF bytes = <<>> THEN <<>>
    ELSE (IF Head(bytes) = ESC THEN <<92, 120, 49, 98>> ELSE <<Head(bytes)>>)
         \o sanitize_raw_bytes(Tail(bytes))

\* other_escape_front_end: title and tooltip by the final byte
other_escape_front_end(byte, raw_bytes) ==
    [type |-> "GenericEscape",
     title |-> CASE byte = 99 -> <<"RIS">> [] byte = 55 -> <<"DECSC">>
                 [] byte = 56 -> <<"DECRC">> [] OTHER -> <<"Other">>,
     tooltip |-> CASE byte = 99 -> <<"Reset to initial state">>
                   [] byte = 55 -> <<"Save Cursor Position">>
                   [] byte = 56 -> <<"Restore Cursor Position">>
                   [] OTHER -> <<>>,
     raw_bytes |-> sanitize_raw_bytes(raw_bytes)]

\* csi_front_end: the title is "CSI " and the intermediates, parameters and
\* final byte; the tooltip table is kept for SGR reset and bold
csi_front_end(params, intermediates, c, raw_bytes) ==
    [type |-> "GenericEscape",
     title |-> <<"CSI", intermediates, params, c>>,
     tooltip |-> IF c = 109 /\ \E i \in 1..Len(params) :
                                  /\ params[i][1] = 0
                                  /\ \A j \in 1..(i - 1) : params[j][1] # 0
                 THEN <<"Reset all modes (styles and colours)">>
                 ELSE IF c = 109 /\ \E i \in 1..Len(params) : params[i][1] = 1
                 THEN <<"Set text to bold. ">>
                 ELSE <<>>,
     raw_bytes |-> sanitize_raw_bytes(raw_bytes)]

\* osc_front_end: "OSC" and the first parameter
osc_front_end(params, raw_bytes) ==
    [type |-> "GenericEscape",
     title |-> IF params = <<>> THEN <<"OSC">> ELSE <<"OSC", params[1]>>,
     tooltip |-> IF Len(params) > 1 /\ params[1] \in {<<48>>, <<49>>, <<50>>}
                 THEN <<"Set title", params[1], params[2]>> ELSE <<>>,
     raw_bytes |-> sanitize_raw_bytes(raw_bytes)]

\* mutant: a Print is sent with colours
PrintDtoColoured(c) ==
    [type |-> "Print", string |-> <<c>>, color |-> "#ffffff", bg_color |-> "#000000"]

\* VteEventDto::Print { string: String::from(*c) }: a Print has no other field
PrintDto(c) == [type |-> "Print", string |-> <<c>>]

\* impl From<&VteEvent> for VteEventDto
Dto(event) ==
    CASE event.type = "Print" -> PrintDto(event.c)
      [] event.type = "Execute" ->
           IF event.byte = 10 THEN [type |-> "LineBreak", title |-> "CR"]
           ELSE IF event.byte = 13 THEN [type |-> "LineBreak", title |-> "LF"]
           ELSE [type |-> "GenericEscape",
                 title |-> <<"Execute", sanitize_raw_bytes(<<event.byte>>)>>,
                 tooltip |-> <<>>,
                 raw_bytes |-> sanitize_raw_bytes(<<event.byte>>)]
      [] event.type \in {"Hook", "Put", "Unhook"} ->
           [type |-> "GenericEscape", title |-> <<event.type>>, tooltip |-> <<>>,
            raw_bytes |-> sanitize_raw_bytes(event.raw_bytes)]
      [] event.type = "OscDispatch" -> osc_front_end(event.params, event.raw_bytes)
      [] event.type = "CsiDispatch" ->
           csi_front_end(event.params, event.intermediates, event.c, event.raw_bytes)
      [] OTHER -> other_escape_front_end(event.byte, event.raw_bytes)

IsPrintDto(d) == d.type = "Print"

\* mutant: the later string is lost
PushStrKeepFirst(x, y) == x

\* last_string.push_str(string) / format!("{x}{y}")
PushStr(x, y) == x \o y

\* mutant: a Print is folded into whatever the last element is
FoldIntoAny(acc, d) ==
    IF acc # <<>> /\ IsPrintDto(d)
    THEN [acc EXCEPT ![Len(acc)] =
             [type |-> "Print",
              string |-> (IF IsPrintDto(@) THEN @.string ELSE <<>>) \o d.string]]
    ELSE Append(acc, d)

\* mutant: nothing is coalesced
FoldNever(acc, d) == Append(acc, d)

\* the coalescing step of both phases: a Print after a Print extends its string
Fold(acc, d) ==
    IF acc # <<>> /\ IsPrintDto(acc[Len(acc)]) /\ IsPrintDto(d)
    THEN [acc EXCEPT ![Len(acc)].string = PushStr(@, d.string)]
    ELSE Append(acc, d)

\* chunk.iter().map(VteEventDto::from).coalesce(..).collect(): one replay frame
RECURSIVE CoalesceFrom(_, _)
CoalesceFrom(acc, events) ==
    IF events = <<>> THEN acc
    ELSE CoalesceFrom(Fold(acc, Dto(Head(events))), Tail(events))

ReplayFrame(chunk) == CoalesceFrom(<<>>, chunk)

\* events.chunks(100): the chunk that starts after `done` events
ChunkAt(events, done) == SubSeq(events, done + 1, Min(done + ChunkSize, Len(events)))

\* ------------------------------------------------------------------ state
VARIABLES
    \* main thread
    mainPc,            \* "start", "raw", "loop", "read", "exited"
    exitCode,          \* "none" while running; "ok", "err", "panic"
    printed,           \* lines main printed on stdout (the banners)
    childKilled,       \* child.clone_killer().kill() succeeded
    childIn,           \* bytes written to child_stdin (the PTY master)
    stdinLog,          \* chunks read from real stdin, in order
    resize_signaled,   \* the AtomicBool SIGWINCH sets
    termSize,          \* what terminal::size() returns
    ptySize,           \* size of the PTY master
    \* the user's terminal
    rawMode,           \* TRUE between enable_raw_mode and disable_raw_mode
    cursorShape,       \* "default" or "custom"
    stderr,            \* panic messages
    \* web server task
    webPc,             \* "off", "binding", "serving", "panicked"
    \* child-output thread
    outPc,             \* "off", "read", "feed", "send", "push", "dead";
                       \* "test", "testlog" in the test helper parse_bytes
    bytes,             \* the chunk of the current iteration
    rest,              \* bytes of the chunk not yet fed to the parser
    statemachine,      \* the vte parser
    curr_cmd_bytes,    \* Performer.curr_cmd_bytes
    pend,              \* Perform callbacks of the current byte still to run
    ev,                \* the VteEvent log() is handling
    ptyRead,           \* all bytes read from the PTY master
    fed,               \* all bytes passed to statemachine.advance
    stdoutBytes,       \* child output written to real stdout
    recording,         \* contents of stdout.txt
    log_to_file,       \* cli.log_to_file
    \* AppState
    all_events,        \* the history, behind the mutex
    lock,              \* holder of the history mutex: 0, or a subscriber
    published,         \* every DTO passed to tx.send, in order
    rx,                \* per subscriber: its broadcast receiver
    \* subscriber tasks (stream_events)
    subPc,             \* "idle", "replay", "subscribe", "recv", "check", "done", "panicked"
    wsOpen,            \* the WebSocket accepts frames
    replayAt,          \* history events already replayed
    snapshot,          \* the history when the subscriber took the lock
    frames,            \* frames the WebSocket accepted: [phase, events]
    batch,
    next_send,         \* next_send - now, in ms; -1 once it is in the past
    since,             \* ms since the last live frame; NoFrame before the first
    recvd,             \* indices (in published) of the events rx.recv returned
    windows            \* the byte windows log() has cleared, in order (history variable)

mainVars == <<mainPc, exitCode, printed, childKilled, childIn, stdinLog, ptySize>>
sigVars == <<resize_signaled, termSize>>
termVars == <<rawMode, cursorShape, stderr>>
outVars == <<outPc, bytes, rest, statemachine, curr_cmd_bytes, pend, ev, ptyRead, fed,
             stdoutBytes, recording>>
chanVars == <<all_events, published, rx>>
subVars == <<subPc, wsOpen, replayAt, snapshot, frames, batch, next_send, since, recvd>>
vars == <<mainVars, sigVars, termVars, webPc, outVars, log_to_file, chanVars, lock, subVars,
          windows>>

NoFrame == 0 - 1
\* entry of recvd for a recv that returned Err(Lagged)
Lagged == 0
NoEvent == [type |-> "None"]
NoRx == [on |-> FALSE, q |-> <<>>, lagged |-> FALSE]

\* bytes the child writes: a printable character, LF and ESC
ChildBytes == {97, LF, ESC}
\* what one read of stdin returns
StdinChunks == {<<120>>, <<EOT>>, <<120, EOT>>}
TermSizes == {80, 100}

Running == mainPc \in {"loop", "read"}

Init ==
    /\ mainPc = "start" /\ exitCode = "none" /\ printed = <<>>
    /\ childKilled = FALSE /\ childIn = <<>> /\ stdinLog = <<>>
    /\ resize_signaled = FALSE /\ termSize = 80 /\ ptySize = 0
    /\ rawMode = FALSE /\ cursorShape = "default" /\ stderr = <<>>
    /\ webPc = "off"
    /\ outPc = "off" /\ bytes = <<>> /\ rest = <<>> /\ statemachine = NewParser
    /\ curr_cmd_bytes = <<>> /\ pend = <<>> /\ ev = NoEvent
    /\ ptyRead = <<>> /\ fed = <<>> /\ stdoutBytes = <<>> /\ recording = <<>>
    /\ log_to_file \in BOOLEAN
    /\ all_events = <<>> /\ lock = 0 /\ published = <<>>
    /\ rx = [s \in Subs |-> NoRx]
    /\ subPc = [s \in Subs |-> "idle"]
    /\ wsOpen = [s \in Subs |-> FALSE]
    /\ replayAt = [s \in Subs |-> 0]
    /\ snapshot = [s \in Subs |-> <<>>]
    /\ frames = [s \in Subs |-> <<>>]
    /\ batch = [s \in Subs |-> <<>>]
    /\ next_send = [s \in Subs |-> 0]
    /\ since = [s \in Subs |-> NoFrame]
    /\ recvd = [s \in Subs |-> <<>>]
    /\ windows = <<>>

\* ------------------------------------------------------------ the terminal
\* mutant: a guard whose drop restores nothing
CleanUpDropNothing == rawMode' = rawMode /\ cursorShape' = cursorShape

\* impl Drop for CleanUp
CleanUpDrop == rawMode' = FALSE /\ cursorShape' = "default"

\* the hook set by initialize_environment, run by a panic on any thread
PanicHook(msg) ==
    /\ rawMode' = FALSE
    /\ cursorShape' = "default"
    /\ stderr' = Append(stderr, msg)

\* ------------------------------------------------------------- main thread
\* main up to terminal::enable_raw_mode()
Launch ==
    /\ mainPc = "start"
    /\ \E o \in {"no_shell", "pty_fail", "raw_fail", "ok"} :
         \/ /\ o = "no_shell"
            /\ mainPc' = "exited" /\ exitCode' = "err"
            /\ UNCHANGED <<printed, ptySize, termVars>>
         \/ /\ o = "pty_fail"
            /\ printed' = <<"Launching">>
            /\ CleanUpDrop
            /\ mainPc' = "exited" /\ exitCode' = "err"
            /\ UNCHANGED <<ptySize, stderr>>
         \/ /\ o = "raw_fail"
            /\ printed' = <<"Launching", "Open">>
            /\ ptySize' = termSize
            /\ CleanUpDrop
            /\ mainPc' = "exited" /\ exitCode' = "err"
            /\ UNCHANGED stderr
         \/ /\ o = "ok"
            /\ printed' = <<"Launching", "Open">>
            /\ ptySize' = termSize
            /\ rawMode' = TRUE
            /\ mainPc' = "raw"
            /\ UNCHANGED <<exitCode, cursorShape, stderr>>
    /\ UNCHANGED <<childKilled, childIn, stdinLog, sigVars, webPc, outVars, log_to_file, windows,
                   chanVars, lock, subVars>>

\* spawn_command, the output thread, the runtime and the web server task
Spawn ==
    /\ mainPc = "raw"
    /\ \/ /\ mainPc' = "loop"
          /\ \E created \in BOOLEAN :
               outPc' = IF log_to_file /\ ~created THEN "dead" ELSE "read"
          /\ webPc' = "binding"
          /\ UNCHANGED <<exitCode, termVars>>
       \/ /\ CleanUpDrop
          /\ mainPc' = "exited" /\ exitCode' = "err"
          /\ UNCHANGED <<outPc, webPc, stderr>>
    /\ UNCHANGED <<printed, childKilled, childIn, stdinLog, ptySize, sigVars, bytes, rest,
                   statemachine, curr_cmd_bytes, pend, ev, ptyRead, fed, stdoutBytes,
                   recording, log_to_file, windows, chanVars, lock, subVars>>

\* top of the forwarding loop: the resize check
LoopTop ==
    /\ mainPc = "loop"
    /\ IF resize_signaled
       THEN \E o \in {"ok", "size_err", "resize_panic"} :
              \/ /\ o = "ok"
                 /\ ptySize' = termSize
                 /\ resize_signaled' = FALSE
                 /\ mainPc' = "read"
                 /\ UNCHANGED <<exitCode, termVars>>
              \/ /\ o = "size_err"
                 /\ CleanUpDrop
                 /\ mainPc' = "exited" /\ exitCode' = "err"
                 /\ UNCHANGED <<ptySize, resize_signaled, stderr>>
              \/ /\ o = "resize_panic"
                 /\ PanicHook("resize")
                 /\ mainPc' = "exited" /\ exitCode' = "panic"
                 /\ UNCHANGED <<ptySize, resize_signaled>>
       ELSE /\ mainPc' = "read"
            /\ UNCHANGED <<exitCode, ptySize, resize_signaled, termVars>>
    /\ UNCHANGED <<printed, childKilled, childIn, stdinLog, termSize, webPc, outVars,
                   log_to_file, windows, chanVars, lock, subVars>>

\* mutant: only the first byte of the chunk is tested
HasEOTFirst(chunk) == chunk # <<>> /\ chunk[1] = EOT

\* bytes.iter().any(|b| *b == 0x4)
HasEOT(chunk) == \E i \in 1..Len(chunk) : chunk[i] = EOT

\* one read of stdin, the write to the child and the EOT test
StdinChunk ==
    /\ mainPc = "read"
    /\ Len(stdinLog) < MaxStdin
    /\ \E chunk \in StdinChunks, io \in {"ok", "read_err", "write_err", "kill_err"} :
         \/ /\ io = "read_err"
            /\ CleanUpDrop
            /\ mainPc' = "exited" /\ exitCode' = "err"
            /\ UNCHANGED <<stdinLog, childIn, childKilled>>
         \/ /\ io = "write_err"
            /\ stdinLog' = Append(stdinLog, chunk)
            /\ CleanUpDrop
            /\ mainPc' = "exited" /\ exitCode' = "err"
            /\ UNCHANGED <<childIn, childKilled>>
         \/ /\ io = "kill_err" /\ HasEOT(chunk)
            /\ stdinLog' = Append(stdinLog, chunk)
            /\ childIn' = childIn \o chunk
            /\ CleanUpDrop
            /\ mainPc' = "exited" /\ exitCode' = "err"
            /\ UNCHANGED childKilled
         \/ /\ io = "ok"
            /\ stdinLog' = Append(stdinLog, chunk)
            /\ childIn' = childIn \o chunk
            /\ IF HasEOT(chunk)
               THEN /\ childKilled' = TRUE
                    /\ CleanUpDrop
                    /\ mainPc' = "exited" /\ exitCode' = "ok"
               ELSE /\ mainPc' = "loop"
                    /\ UNCHANGED <<childKilled, exitCode, rawMode, cursorShape>>
    /\ UNCHANGED <<printed, ptySize, sigVars, stderr, webPc, outVars, log_to_file, windows,
                   chanVars, lock, subVars>>

\* SIGWINCH: the user resizes the terminal window
Sigwinch ==
    /\ Running
    /\ \E sz \in TermSizes \ {termSize} : termSize' = sz
    /\ resize_signaled' = TRUE
    /\ UNCHANGED <<mainVars, termVars, webPc, outVars, log_to_file, windows, chanVars, lock,
                   subVars>>

\* the web server task: axum::Server::bind(..).serve(..).await.expect(..)
WebBind ==
    /\ Running
    /\ webPc = "binding"
    /\ \/ /\ webPc' = "serving"
          /\ UNCHANGED termVars
       \/ /\ webPc' = "panicked"
          /\ PanicHook("bind")
    /\ UNCHANGED <<mainVars, sigVars, outVars, log_to_file, windows, chanVars, lock, subVars>>

\* ------------------------------------------------------ child-output thread
\* the iterator of `for byte in &bytes`
NextByte(bs) == Head(bs)
RestBytes(bs) == Tail(bs)

\* tx.send(dto): every live receiver gets the value; a receiver that already
\* holds Capacity values loses its oldest one and will see Lagged
TxSend(r, d, n) ==
    [s \in Subs |->
        IF ~r[s].on THEN r[s]
        ELSE IF Len(r[s].q) < Capacity
        THEN [r[s] EXCEPT !.q = Append(@, [n |-> n, e |-> d])]
        ELSE [r[s] EXCEPT !.q = Append(Tail(@), [n |-> n, e |-> d]), !.lagged = TRUE]]

\* let size = reader.read(&mut buf)?; let bytes = buf[0..size].to_vec();
OutRead ==
    /\ Running
    /\ outPc = "read"
    /\ \/ \E chunk \in SeqsOf(ChildBytes, 1, MaxChunk) :
            /\ Len(ptyRead) + Len(chunk) <= MaxRead
            /\ bytes' = chunk /\ rest' = chunk
            /\ ptyRead' = ptyRead \o chunk
            /\ outPc' = "feed"
       \/ /\ outPc' = "dead"
          /\ UNCHANGED <<bytes, rest, ptyRead>>
    /\ UNCHANGED <<mainVars, sigVars, termVars, webPc, statemachine, curr_cmd_bytes, pend,
                   ev, fed, stdoutBytes, recording, log_to_file, windows, chanVars, lock, subVars>>

\* mutant: the event is appended to the history before it is published
PushThenSend == <<"push", "send">>

\* the order of the two effects of Performer::log: tx.send, then
\* all_events.blocking_lock().push
LogOrder == <<"send", "push">>

\* performer.curr_cmd_bytes.push(*byte); statemachine.advance(&mut performer, *byte)
\* up to the first callback it makes
OutAdvance ==
    /\ Running
    /\ outPc = "feed"
    /\ rest # <<>>
    /\ LET b == NextByte(rest)
           r == Advance(statemachine, b)
       IN  /\ curr_cmd_bytes' = Append(curr_cmd_bytes, b)
           /\ fed' = Append(fed, b)
           /\ rest' = RestBytes(rest)
           /\ statemachine' = r.p
           /\ pend' = r.cbs
           /\ outPc' = IF r.cbs = <<>> THEN "feed" ELSE LogOrder[1]
    /\ UNCHANGED <<mainVars, sigVars, termVars, webPc, bytes, ev, ptyRead, stdoutBytes,
                   recording, log_to_file, windows, chanVars, lock, subVars>>

\* tx.send for each DTO of ds in turn; n is the number of DTOs sent before
RECURSIVE TxSendAll(_, _, _)
TxSendAll(r, ds, n) ==
    IF ds = <<>> THEN r
    ELSE TxSendAll(TxSend(r, Head(ds), n + 1), Tail(ds), n + 1)

\* mutant: a separator is sent ahead of an event whenever a run of line breaks
\* begins or ends
SentWithSeparator(event, last) ==
    IF (Dto(event).type = "LineBreak") # (last # <<>> /\ last[1].type = "LineBreak")
    THEN <<[type |-> "InvisibleLineBreak"], Dto(event)>>
    ELSE <<Dto(event)>>

\* what log() sends for one event, `last` being the DTO sent before it (if
\* any): VteEventDto::from(&event) and nothing else
SentFor(event, last) == <<Dto(event)>>

LastSent == IF published = <<>> THEN <<>> ELSE <<published[Len(published)]>>

\* the event log() was called with: built by the callback from the window, and
\* held in ev between the two statements
LogEvent == IF outPc = LogOrder[1] THEN MakeEvent(Head(pend), curr_cmd_bytes) ELSE ev

\* where the thread goes after statement stmt of log(): on to the other
\* statement, or out of log() to the next callback of the byte or the next byte
LogNext(stmt) ==
    IF stmt = LogOrder[1] THEN LogOrder[2]
    ELSE IF Tail(pend) = <<>> THEN "feed" ELSE LogOrder[1]

\* no receiver is subscribed: tx.send returns Err(SendError)
NoReceiver == \A s \in Subs : ~rx[s].on

\* mutant: the result of tx.send is propagated and ends the thread
SendResultChecked(ok, next) == IF ok THEN next ELSE "dead"

\* let _ = ...: the Result of tx.send is discarded
SendResultIgnored(ok, next) == next

\* mutant: clear() leaves the byte that completed the event in the window
ClearAllButLast(w) == IF w = <<>> THEN w ELSE <<w[Len(w)]>>

\* mutant: the window is kept across events
KeepWindow(w) == w

\* self.curr_cmd_bytes.clear()
ClearWindow(w) == <<>>

\* mutant: the event is put in front of the history
PushFront(events, event) == <<event>> \o events

\* all_events.push(event)
PushEvent(events, event) == Append(events, event)

\* what statement stmt of log() leaves of the call: after the first statement
\* the event is still held; after the second, log() ends with
\* self.curr_cmd_bytes.clear() and the callback returns
LogStatement(stmt, event) ==
    IF stmt = LogOrder[1]
    THEN /\ ev' = event
         /\ UNCHANGED <<windows, curr_cmd_bytes, pend>>
    ELSE /\ ev' = NoEvent
         /\ windows' = Append(windows, curr_cmd_bytes)
         /\ curr_cmd_bytes' = ClearWindow(curr_cmd_bytes)
         /\ pend' = Tail(pend)

\* Performer::log, first statement: let _ = self.state.tx.send(VteEventDto::from(&event))
LogSend ==
    /\ Running
    /\ outPc = "send"
    /\ LET event == LogEvent
           sent == SentFor(event, LastSent)
       IN  /\ published' = published \o sent
           /\ rx' = TxSendAll(rx, sent, Len(published))
           /\ LogStatement("send", event)
    /\ outPc' = SendResultIgnored(~NoReceiver, LogNext("send"))
    /\ UNCHANGED <<mainVars, sigVars, termVars, webPc, bytes, rest, statemachine,
                   ptyRead, fed, stdoutBytes, recording, log_to_file,
                   all_events, lock, subVars>>

\* Performer::log, the rest: all_events.blocking_lock().push(event);
\* curr_cmd_bytes.clear()
LogPush ==
    /\ Running
    /\ outPc = "push"
    /\ lock = 0
    /\ LET event == LogEvent
       IN  /\ all_events' = PushEvent(all_events, event)
           /\ LogStatement("push", event)
    /\ outPc' = LogNext("push")
    /\ UNCHANGED <<mainVars, sigVars, termVars, webPc, bytes, rest, statemachine, ptyRead,
                   fed, stdoutBytes, recording, log_to_file, published, rx, lock, subVars>>

\* The terminal interprets what is written to it: an escape sequence of the
\* child may change the cursor style (every ESC stands for such a sequence)
RestylesCursor(bs) == \E i \in 1..Len(bs) : bs[i] = ESC

\* mutant: the last byte of the chunk is not written
WriteAllButLast(out, bs) == out \o SubSeq(bs, 1, Len(bs) - 1)

\* write_all(&bytes) returning Ok: the whole chunk is appended to the output
WriteAll(out, bs) == out \o bs

\* write_all(&bytes) or flush() returning Err: the first k bytes of the chunk
\* got out before the error
WriteSome(out, bs, k) == out \o SubSeq(bs, 1, k)

\* stdout().write_all(&bytes)?; stdout().flush()?; recording.write_all(&bytes)?
OutWrite ==
    /\ Running
    /\ outPc = "feed"
    /\ rest = <<>>
    /\ \E io \in {"ok", "stdout_err", "file_err"} :
         \/ /\ io = "ok"
            /\ stdoutBytes' = WriteAll(stdoutBytes, bytes)
            /\ recording' = IF log_to_file THEN WriteAll(recording, bytes) ELSE recording
            /\ outPc' = "read"
         \/ /\ io = "stdout_err"
            /\ \E k \in 0..(Len(bytes) - 1) : stdoutBytes' = WriteSome(stdoutBytes, bytes, k)
            /\ outPc' = "dead"
            /\ UNCHANGED recording
         \/ /\ io = "file_err" /\ log_to_file
            /\ stdoutBytes' = WriteAll(stdoutBytes, bytes)
            /\ \E k \in 0..(Len(bytes) - 1) : recording' = WriteSome(recording, bytes, k)
            /\ outPc' = "dead"
    /\ cursorShape' = IF stdoutBytes' # stdoutBytes /\ RestylesCursor(bytes)
                       THEN "custom" ELSE cursorShape
    /\ bytes' = <<>>
    /\ UNCHANGED <<mainVars, sigVars, rawMode, stderr, webPc, rest, statemachine,
                   curr_cmd_bytes, pend, ev, ptyRead, fed, log_to_file, windows, chanVars, lock,
                   subVars>>

\* ----------------------------------------------- the test helper parse_bytes
\* bytes of the inputs: ESC [ ] 1 ; m a LF CR CAN
TestBytes == {ESC, 91, 93, 49, 59, 109, 97, LF, CR, 24}
TestInputs == SeqsOf(TestBytes, 1, MaxParse)

\* parse_bytes(combined): a fresh AppState, Performer and parser; nothing else
\* of the program runs
InitParse ==
    /\ mainPc = "start" /\ exitCode = "none" /\ printed = <<>>
    /\ childKilled = FALSE /\ childIn = <<>> /\ stdinLog = <<>>
    /\ resize_signaled = FALSE /\ termSize = 80 /\ ptySize = 0
    /\ rawMode = FALSE /\ cursorShape = "default" /\ stderr = <<>>
    /\ webPc = "off"
    /\ outPc = "test" /\ bytes \in TestInputs /\ rest = bytes
    /\ statemachine = NewParser
    /\ curr_cmd_bytes = <<>> /\ pend = <<>> /\ ev = NoEvent
    /\ ptyRead = <<>> /\ fed = <<>> /\ stdoutBytes = <<>> /\ recording = <<>>
    /\ log_to_file = FALSE
    /\ all_events = <<>> /\ lock = 0 /\ published = <<>>
    /\ rx = [s \in Subs |-> NoRx]
    /\ subPc = [s \in Subs |-> "idle"]
    /\ wsOpen = [s \in Subs |-> FALSE]
    /\ replayAt = [s \in Subs |-> 0]
    /\ snapshot = [s \in Subs |-> <<>>]
    /\ frames = [s \in Subs |-> <<>>]
    /\ batch = [s \in Subs |-> <<>>]
    /\ next_send = [s \in Subs |-> 0]
    /\ since = [s \in Subs |-> NoFrame]
    /\ recvd = [s \in Subs |-> <<>>]
    /\ windows = <<>>

\* for byte in combined { performer.curr_cmd_bytes.push(byte);
\*                        statemachine.advance(&mut performer, byte); }
ParseAdvance ==
    /\ outPc = "test"
    /\ rest # <<>>
    /\ LET b == NextByte(rest)
           r == Advance(statemachine, b)
       IN  /\ curr_cmd_bytes' = Append(curr_cmd_bytes, b)
           /\ fed' = Append(fed, b)
           /\ rest' = RestBytes(rest)
           /\ statemachine' = r.p
           /\ pend' = r.cbs
           /\ outPc' = IF r.cbs = <<>> THEN "test" ELSE "testlog"
    /\ UNCHANGED <<mainVars, sigVars, termVars, webPc, bytes, ev, ptyRead, stdoutBytes,
                   recording, log_to_file, windows, chanVars, lock, subVars>>

\* one callback of the byte: Performer::log run to its end (the test has one thread)
ParseLog ==
    /\ outPc = "testlog"
    /\ LET event == MakeEvent(Head(pend), curr_cmd_bytes)
           sent == SentFor(event, LastSent)
       IN  /\ published' = published \o sent
           /\ rx' = TxSendAll(rx, sent, Len(published))
           /\ all_events' = PushEvent(all_events, event)
    /\ windows' = Append(windows, curr_cmd_bytes)
    /\ curr_cmd_bytes' = ClearWindow(curr_cmd_bytes)
    /\ pend' = Tail(pend)
    /\ outPc' = IF Tail(pend) = <<>> THEN "test" ELSE "testlog"
    /\ UNCHANGED <<mainVars, sigVars, termVars, webPc, bytes, rest, statemachine, ev,
                   ptyRead, fed, stdoutBytes, recording, log_to_file, lock, subVars>>

\* parse_bytes has returned events.clone()
ParseDone == outPc = "test" /\ rest = <<>>

\* ------------------------------------------------------- subscriber tasks
Live(s) == subPc[s] \in {"recv", "check"}

\* events_websocket / stream_events: let events = app_state.all_events.lock().await
Connect(s) ==
    /\ Running
    /\ webPc = "serving"
    /\ subPc[s] = "idle"
    /\ lock = 0
    /\ lock' = s
    /\ subPc' = [subPc EXCEPT ![s] = "replay"]
    /\ wsOpen' = [wsOpen EXCEPT ![s] = TRUE]
    /\ snapshot' = [snapshot EXCEPT ![s] = all_events]
    /\ UNCHANGED <<mainVars, sigVars, termVars, webPc, outVars, log_to_file, windows, chanVars,
                   replayAt, frames, batch, next_send, since, recvd>>

\* one iteration of `for chunk in events.chunks(100)`: ws.send(..).await.unwrap()
ReplaySend(s) ==
    /\ Running
    /\ subPc[s] = "replay"
    /\ replayAt[s] < Len(all_events)
    /\ LET chunk == ChunkAt(all_events, replayAt[s]) IN
       IF wsOpen[s]
       THEN /\ frames' = [frames EXCEPT ![s] = Append(@, [phase |-> "A",
                                                            events |-> ReplayFrame(chunk)])]
            /\ replayAt' = [replayAt EXCEPT ![s] = @ + Len(chunk)]
            /\ UNCHANGED <<subPc, lock, termVars>>
       ELSE /\ subPc' = [subPc EXCEPT ![s] = "panicked"]
            /\ lock' = 0
            /\ PanicHook("send")
            /\ UNCHANGED <<frames, replayAt>>
    /\ UNCHANGED <<mainVars, sigVars, webPc, outVars, log_to_file, windows, chanVars, wsOpen,
                   snapshot, batch, next_send, since, recvd>>

\* the loop has ended: drop(events)
ReplayDone(s) ==
    /\ Running
    /\ subPc[s] = "replay"
    /\ replayAt[s] = Len(all_events)
    /\ lock' = 0
    /\ subPc' = [subPc EXCEPT ![s] = "subscribe"]
    /\ UNCHANGED <<mainVars, sigVars, termVars, webPc, outVars, log_to_file, windows, chanVars,
                   wsOpen, replayAt, snapshot, frames, batch, next_send, since, recvd>>

\* let mut rx = app_state.tx.subscribe(); batch = vec![];
\* next_send = Instant::now() + THROTTLE_DURATION
Subscribe(s) ==
    /\ Running
    /\ subPc[s] = "subscribe"
    /\ rx' = [rx EXCEPT ![s] = [on |-> TRUE, q |-> <<>>, lagged |-> FALSE]]
    /\ batch' = [batch EXCEPT ![s] = <<>>]
    /\ next_send' = [next_send EXCEPT ![s] = THROTTLE_DURATION]
    /\ subPc' = [subPc EXCEPT ![s] = "recv"]
    /\ UNCHANGED <<mainVars, sigVars, termVars, webPc, outVars, log_to_file, windows, all_events,
                   published, lock, wsOpen, replayAt, snapshot, frames, since, recvd>>

\* whether the received event is folded into the batch (the loop continues at once)
Coalesces(b, e) == IsPrintDto(e) /\ b # <<>> /\ IsPrintDto(b[Len(b)])

\* mutant: a lagging receiver is treated as an error and the task returns
OnLaggedReturn == "done"

\* where the loop goes when rx.recv() returns Err(Lagged): `if let Ok(Ok(e))` does
\* not match, so it falls through to the deadline check
OnLagged == "check"

\* if let Ok(Ok(e)) = timeout_at(next_send, rx.recv()).await { .. }
Recv(s) ==
    /\ Running
    /\ subPc[s] = "recv"
    /\ IF rx[s].lagged
       THEN \* Ok(Err(Lagged)): the pattern does not match
            /\ rx' = [rx EXCEPT ![s] = IF OnLagged = "done" THEN NoRx
                                        ELSE [@ EXCEPT !.lagged = FALSE]]
            /\ subPc' = [subPc EXCEPT ![s] = OnLagged]
            /\ recvd' = [recvd EXCEPT ![s] = Append(@, Lagged)]
            /\ UNCHANGED batch
       ELSE IF rx[s].q # <<>>
       THEN LET m == Head(rx[s].q) IN
            /\ rx' = [rx EXCEPT ![s].q = Tail(@)]
            /\ recvd' = [recvd EXCEPT ![s] = Append(@, m.n)]
            /\ batch' = [batch EXCEPT ![s] = Fold(@, m.e)]
            /\ subPc' = [subPc EXCEPT ![s] =
                            IF Coalesces(batch[s], m.e) THEN "recv" ELSE "check"]
       ELSE \* Err(Elapsed) once the deadline is reached
            /\ next_send[s] <= 0
            /\ subPc' = [subPc EXCEPT ![s] = "check"]
            /\ UNCHANGED <<rx, batch, recvd>>
    /\ UNCHANGED <<mainVars, sigVars, termVars, webPc, outVars, log_to_file, windows, all_events,
                   published, lock, wsOpen, replayAt, snapshot, frames, next_send, since>>

\* mutant: the deadline is never seen to have passed
DeadlineNever(ns) == FALSE

\* mutant: the deadline is not waited for
DeadlineIgnored(ns) == TRUE

\* Instant::now() > next_send
DeadlinePassed(ns) == ns < 0

\* mutant: the result of ws.send is dropped
IgnoresSendError == FALSE

\* `if ws.send(..).await.is_err() { return; }`
ReturnsOnSendError == TRUE

\* if Instant::now() > next_send { .. }
Deadline(s) ==
    /\ Running
    /\ subPc[s] = "check"
    /\ IF DeadlinePassed(next_send[s])
       THEN /\ IF batch[s] # <<>>
               THEN IF wsOpen[s] \/ ~ReturnsOnSendError
                    THEN /\ frames' = [frames EXCEPT ![s] =
                                          Append(@, [phase |-> "B", events |-> batch[s]])]
                         /\ batch' = [batch EXCEPT ![s] = <<>>]
                         /\ since' = [since EXCEPT ![s] = 0]
                         /\ next_send' = [next_send EXCEPT ![s] = THROTTLE_DURATION]
                         /\ subPc' = [subPc EXCEPT ![s] = "recv"]
                         /\ UNCHANGED rx
                    ELSE /\ subPc' = [subPc EXCEPT ![s] = "done"]
                         /\ rx' = [rx EXCEPT ![s] = NoRx]
                         /\ UNCHANGED <<frames, batch, since, next_send>>
               ELSE /\ next_send' = [next_send EXCEPT ![s] = THROTTLE_DURATION]
                    /\ subPc' = [subPc EXCEPT ![s] = "recv"]
                    /\ UNCHANGED <<frames, batch, since, rx>>
       ELSE /\ subPc' = [subPc EXCEPT ![s] = "recv"]
            /\ UNCHANGED <<frames, batch, since, next_send, rx>>
    /\ UNCHANGED <<mainVars, sigVars, termVars, webPc, outVars, log_to_file, windows, all_events,
                   published, lock, wsOpen, replayAt, snapshot, recvd>>

\* the browser goes away: later sends on this WebSocket fail
Disconnect(s) ==
    /\ Running
    /\ subPc[s] \in {"replay", "subscribe", "recv", "check"}
    /\ wsOpen[s]
    /\ wsOpen' = [wsOpen EXCEPT ![s] = FALSE]
    /\ UNCHANGED <<mainVars, sigVars, termVars, webPc, outVars, log_to_file, windows, chanVars,
                   lock, subPc, replayAt, snapshot, frames, batch, next_send, since, recvd>>

\* TickMs milliseconds pass
SinceCap == 2 * THROTTLE_DURATION
Tick ==
    /\ Running
    /\ \E s \in Subs : Live(s)
    /\ next_send' = [s \in Subs |->
                        IF Live(s) THEN Max(next_send[s] - TickMs, -1) ELSE next_send[s]]
    /\ since' = [s \in Subs |->
                    IF since[s] = NoFrame THEN NoFrame
                    ELSE Min(since[s] + TickMs, SinceCap)]
    /\ UNCHANGED <<mainVars, sigVars, termVars, webPc, outVars, log_to_file, windows, chanVars,
                   lock, subPc, wsOpen, replayAt, snapshot, frames, batch, recvd>>

\* ------------------------------------------------------------ specification
MainStep == Launch \/ Spawn \/ LoopTop \/ StdinChunk
OutStep == OutRead \/ OutAdvance \/ LogSend \/ LogPush \/ OutWrite
SubStep(s) ==
    \/ Connect(s) \/ ReplaySend(s) \/ ReplayDone(s) \/ Subscribe(s)
    \/ Recv(s) \/ Deadline(s) \/ Disconnect(s)

\* the capture pipeline alone: nobody types and the window is not resized
Startup == Launch \/ Spawn
NextOne == Startup \/ WebBind \/ OutStep \/ SubStep(1) \/ Tick
InitOne == Init /\ log_to_file = FALSE
SpecOne == InitOne /\ [][NextOne]_vars

\* the PTY bridge alone: no browser connects
NextBridge == MainStep \/ Sigwinch \/ WebBind \/ OutStep
SpecBridge == Init /\ [][NextBridge]_vars

\* the test helper alone
NextParse == ParseAdvance \/ ParseLog
SpecParse == InitParse /\ [][NextParse]_vars

\* the bridge with the main thread and the output thread taking their steps;
\* nothing obliges the user to type or to resize the window
SpecBridgeFair ==
    /\ SpecBridge
    /\ WF_vars(Launch) /\ WF_vars(Spawn) /\ WF_vars(LoopTop)
    /\ WF_vars(OutAdvance) /\ WF_vars(LogSend) /\ WF_vars(LogPush) /\ WF_vars(OutWrite)

Next == MainStep \/ Sigwinch \/ WebBind \/ OutStep \/ (\E s \in Subs : SubStep(s)) \/ Tick

Spec == Init /\ [][Next]_vars

\* the subscriber and the clock take their steps; the child may stay silent
SpecOneFair ==
    /\ SpecOne
    /\ WF_vars(Recv(1)) /\ WF_vars(Deadline(1)) /\ WF_vars(Tick)
    /\ WF_vars(OutAdvance) /\ WF_vars(LogSend) /\ WF_vars(LogPush) /\ WF_vars(OutWrite)

\* ------------------------------------------------------------------ claims
Contains(chunk, b) == \E i \in 1..Len(chunk) : chunk[i] = b

NoAdjacentPrints(ds) ==
    \A i \in 1..(Len(ds) - 1) : ~(ds[i].type = "Print" /\ ds[i + 1].type = "Print")

\* a Print DTO of n characters as n Print DTOs of one character
RECURSIVE Chars(_)
Chars(str) ==
    IF str = <<>> THEN <<>>
    ELSE <<[type |-> "Print", string |-> <<Head(str)>>]>> \o Chars(Tail(str))

RECURSIVE Expand(_)
Expand(ds) ==
    IF ds = <<>> THEN <<>>
    ELSE (IF IsPrintDto(Head(ds)) THEN Chars(Head(ds).string) ELSE <<Head(ds)>>)
         \o Expand(Tail(ds))

RECURSIVE FrameEvents(_, _)
FrameEvents(fs, phase) ==
    IF fs = <<>> THEN <<>>
    ELSE (IF Head(fs).phase = phase THEN Expand(Head(fs).events) ELSE <<>>)
         \o FrameEvents(Tail(fs), phase)

PhaseFrames(s, phase) == {i \in 1..Len(frames[s]) : frames[s][i].phase = phase}

DtosOf(events) == [i \in 1..Len(events) |-> Dto(events[i])]

\* C1: the bytes fed to the parser are, in order and each once, the bytes read
\* from the PTY master, and when the process has exited every byte read has
\* been fed
C1_AllFedBeforeExit ==
    /\ IsPrefix(fed, ptyRead)
    /\ mainPc = "exited" => fed = ptyRead

\* What the output thread does keep: the bytes fed are at every moment the
\* bytes read, each once and in the order read, up to the unprocessed rest of
\* the chunk in progress; between two chunks every byte read has been fed
C1_FedInOrderPerChunk ==
    /\ fed \o rest = ptyRead
    /\ outPc \in {"off", "read", "dead"} => fed = ptyRead

C1_Witness == outPc = "read" /\ Len(fed) = 3 /\ Len(all_events) >= 2

HasLagged(s) == rx[s].lagged \/ Contains(recvd[s], Lagged)

C3_NoEventMissed ==
    \A s \in Subs :
       (rx[s].on /\ ~HasLagged(s)) =>
          \A n \in (Len(snapshot[s]) + 1)..Len(published) :
             \/ Contains(recvd[s], n)
             \/ \E i \in 1..Len(rx[s].q) : rx[s].q[i].n = n

\* C4: while a subscriber replays, the history is its snapshot; the replay
\* frames so far stand for the first replayAt events; every frame stands for at
\* most ChunkSize and, but for the last, exactly ChunkSize history events; once
\* the replay is over, the frames' events, Print strings split into characters,
\* are the DTOs of the snapshot, in order
ReplayOver(s) == subPc[s] \in {"subscribe", "recv", "check", "done"}

C4_ReplayReproducesSnapshot ==
    \A s \in Subs :
       /\ subPc[s] = "replay" => all_events = snapshot[s]
       /\ subPc[s] \in {"replay", "panicked"} \/ ReplayOver(s) =>
            /\ FrameEvents(frames[s], "A") = DtosOf(SubSeq(snapshot[s], 1, replayAt[s]))
            /\ \A i \in PhaseFrames(s, "A") :
                  /\ Len(Expand(frames[s][i].events)) <= ChunkSize
                  /\ i * ChunkSize <= replayAt[s] =>
                        Len(Expand(frames[s][i].events)) = ChunkSize
       /\ ReplayOver(s) => replayAt[s] = Len(snapshot[s])

C4_Witness ==
    \E s \in Subs :
       /\ ReplayOver(s)
       /\ Len(snapshot[s]) = 3
       /\ Cardinality(PhaseFrames(s, "A")) = 2
       /\ Len(frames[s][1].events) = 1

\* C5: a step in which a subscriber's task ends on a failed send changes
\* nothing but that subscriber's task: not the terminal, not the history, not
\* the producer, not another subscriber
EndsOnSendFailure(s) ==
    /\ subPc[s] \in {"replay", "check"}
    /\ subPc'[s] \in {"panicked", "done"}

C5_SendFailureIsLocal ==
    [][\A s \in Subs :
          EndsOnSendFailure(s) =>
             /\ UNCHANGED <<termVars, outVars, all_events, published, mainVars>>
             /\ \A t \in Subs \ {s} :
                   UNCHANGED <<subPc[t], rx[t], frames[t], batch[t], wsOpen[t]>>]_vars

\* C6 (as stated): two consecutive live frames of a subscriber are at least
\* 100 ms apart
SendsLiveFrame(s) ==
    /\ subPc[s] = "check"
    /\ Len(frames'[s]) = Len(frames[s]) + 1

Returned(s) == subPc[s] = "done" /\ ~rx[s].on

C7_DisconnectLeadsToReturn ==
    \A s \in {1} : (Live(s) /\ ~wsOpen[s]) ~> Returned(s)

\* C7 (amended): a live subscriber whose WebSocket is gone returns and drops
\* its receiver at its next send, which comes once its batch holds an event; a
\* task whose batch stays empty never sends and never returns
C7_DisconnectWithBatchLeadsToReturn ==
    \A s \in {1} : (Live(s) /\ ~wsOpen[s] /\ batch[s] # <<>>) ~> Returned(s)

C7_Witness == Returned(1) /\ batch[1] # <<>>

\* C8: a receiver that lagged keeps running: the task ends only on a failed
\* send; what it received is in publication order, the events lost are the
\* oldest undelivered ones, and the events batched and sent are, in order, the
\* events it received
RECURSIVE Received(_)
Received(ns) ==
    IF ns = <<>> THEN <<>>
    ELSE (IF Head(ns) = Lagged THEN <<>> ELSE <<Head(ns)>>) \o Received(Tail(ns))

C8_LagIsNotAnError ==
    \A s \in Subs :
       LET got == Received(recvd[s]) IN
       /\ subPc[s] = "done" => ~wsOpen[s]
       /\ Contains(recvd[s], Lagged) /\ wsOpen[s] => Live(s) /\ rx[s].on
       /\ \A i \in 1..(Len(got) - 1) : got[i] < got[i + 1]
       /\ \A i \in 1..Len(rx[s].q) :
             /\ rx[s].q[i].n = Len(published) - Len(rx[s].q) + i
             /\ \A j \in 1..Len(got) : got[j] < rx[s].q[i].n
       /\ FrameEvents(frames[s], "B") \o Expand(batch[s])
             = [i \in 1..Len(got) |-> published[got[i]]]

C8_Witness ==
    \E s \in Subs :
       /\ recvd[s] = <<Lagged, 2, 3>>
       /\ Cardinality(PhaseFrames(s, "B")) >= 1
       /\ batch[s] = <<>>

\* C9: once the process has exited, on whatever path, the terminal is in cooked
\* mode and the cursor has its default shape
C9_TerminalRestoredOnExit ==
    mainPc = "exited" => rawMode = FALSE /\ cursorShape = "default"

C9_Witness ==
    /\ mainPc = "exited" /\ exitCode = "ok"
    /\ RestylesCursor(stdoutBytes)
    /\ "Open" \in {printed[i] : i \in 1..Len(printed)}

C11_StartupFailureExitsNonZero ==
    /\ (mainPc = "exited" /\ webPc = "off") => exitCode = "err" /\ ~rawMode
    /\ webPc = "panicked" => ~rawMode
    /\ (mainPc = "exited" /\ webPc = "panicked") => exitCode # "ok"

\* C12: once the window-change signal is raised the PTY master gets the
\* terminal's size (or the process ends), whatever the user does
C12_ResizeFollowsSignal ==
    resize_signaled ~> ((~resize_signaled /\ ptySize = termSize) \/ mainPc = "exited")

\* C13: once the output thread has ended on a read error nothing more is
\* appended to the history or published, and a connected live subscriber gets
\* in later frames every event that was queued for it (unless its browser
\* goes away first)
Flushed(s) ==
    /\ rx[s].q = <<>> /\ ~rx[s].lagged /\ batch[s] = <<>>
    /\ FrameEvents(frames[s], "B")
          = [i \in 1..Len(Received(recvd[s])) |-> published[Received(recvd[s])[i]]]

C13_ReadErrorEndsDriverCleanly ==
    /\ [][outPc = "dead" =>
             /\ outPc' = "dead"
             /\ all_events' = all_events
             /\ published' = published]_vars
    /\ \A s \in {1} :
          (outPc = "dead" /\ Live(s) /\ wsOpen[s]) ~> (Flushed(s) \/ ~wsOpen[s])

\* the thread ended on a read error (every chunk read was written out) with
\* events still queued for the subscriber, and they have all been sent
C13_Witness ==
    /\ outPc = "dead" /\ ptyRead # <<>> /\ stdoutBytes = ptyRead
    /\ wsOpen[1] /\ Live(1) /\ Flushed(1)
    /\ Len(recvd[1]) >= 2
    /\ Cardinality(PhaseFrames(1, "B")) >= 1

\* C14: the event of control byte 0x0A is sent as LineBreak "LF", that of 0x0D
\* as LineBreak "CR", and no other event is sent as a LineBreak
C14_LineBreakTitles ==
    \A i \in 1..Len(all_events) :
       LET e == all_events[i]
           d == published[i]
       IN  /\ (e.type = "Execute" /\ e.byte = 10) => d = [type |-> "LineBreak", title |-> "LF"]
           /\ (e.type = "Execute" /\ e.byte = 13) => d = [type |-> "LineBreak", title |-> "CR"]
           /\ d.type = "LineBreak" => (e.type = "Execute" /\ e.byte \in {10, 13})

\* the bytes an event of the history carries: its raw_bytes, or for Print and
\* Execute, which have no raw_bytes field, the character or byte itself
EventBytes(e) ==
    IF e.type = "Print" THEN <<e.c>>
    ELSE IF e.type = "Execute" THEN <<e.byte>>
    ELSE e.raw_bytes

EventsBytes(events) == Flatten([i \in 1..Len(events) |-> EventBytes(events[i])])

RECURSIVE SplitParams(_, _)
SplitParams(ps, cur) ==
    IF ps = <<>> THEN <<<<cur>>>>
    ELSE IF Head(ps) = 59 THEN <<<<cur>>>> \o SplitParams(Tail(ps), 0)
    ELSE SplitParams(Tail(ps), cur * 10 + (Head(ps) - 48))

\* ESC [, parameter bytes (digits and semicolons), one final byte
IsCsiSequence(bs) ==
    /\ Len(bs) >= 3
    /\ bs[1] = ESC /\ bs[2] = 91
    /\ \A i \in 3..(Len(bs) - 1) : bs[i] \in (48..57) \cup {59}
    /\ bs[Len(bs)] \in 64..126

\* C16: parse_bytes on one complete CSI sequence returns exactly one
\* CsiDispatch event: its params are the sequence's parameters, its final
\* character the sequence's last byte and its raw_bytes the whole sequence; the
\* byte window is left empty
C16_CsiSequenceIsOneEvent ==
    (ParseDone /\ IsCsiSequence(bytes)) =>
       /\ all_events =
             <<[type |-> "CsiDispatch",
                params |-> SplitParams(SubSeq(bytes, 3, Len(bytes) - 1), 0),
                intermediates |-> <<>>, ignore |-> FALSE,
                c |-> bytes[Len(bytes)], raw_bytes |-> bytes]>>
       /\ curr_cmd_bytes = <<>>

C16_Witness ==
    /\ ParseDone
    /\ bytes = <<ESC, 91, 49, 109>>
    /\ Len(all_events) = 1 /\ all_events[1].params = << <<1>> >>

\* whether the event sent before position i, separators apart, is a LineBreak
LastWasLineBreak(ds, i) ==
    \E j \in 1..(i - 1) :
       /\ ds[j].type = "LineBreak"
       /\ \A k \in (j + 1)..(i - 1) : ds[k].type = "InvisibleLineBreak"

Null == "null"
ColorOf(d) == IF "color" \in DOMAIN d THEN d.color ELSE Null
BgColorOf(d) == IF "bg_color" \in DOMAIN d THEN d.bg_color ELSE Null

\* sgr() classified the sequence as a reset
IsSgrReset(d) ==
    d.type = "GenericEscape" /\ d.tooltip = <<"Reset all modes (styles and colours)">>

\* an SGR sequence with a foreground or background parameter
SetsColour(e) ==
    /\ e.type = "CsiDispatch" /\ e.c = 109
    /\ \E k \in 1..Len(e.params) : e.params[k][1] \in (30..49) \cup (90..107)

C19_HistoryBeforeBroadcast ==
    \A s \in Subs : \A i \in 1..Len(rx[s].q) : rx[s].q[i].n <= Len(all_events)

\* the events the callbacks cbs of one byte log: the first with the window w,
\* the others with the window log() has just cleared
RECURSIVE EmitAll(_, _)
EmitAll(cbs, w) ==
    IF cbs = <<>> THEN <<>>
    ELSE <<MakeEvent(Head(cbs), w)>> \o EmitAll(Tail(cbs), <<>>)

\* the events the parser emits for the bytes bs, in emission order, from the
\* parser state p and the window curr
RECURSIVE Emitted(_, _, _)
Emitted(p, curr, bs) ==
    IF bs = <<>> THEN <<>>
    ELSE LET r == Advance(p, Head(bs))
             w == Append(curr, Head(bs))
         IN  IF r.cbs = <<>> THEN Emitted(r.p, w, Tail(bs))
             ELSE EmitAll(r.cbs, w) \o Emitted(r.p, <<>>, Tail(bs))

\* C20: no step removes or reorders an entry of the history, and the history
\* is a prefix of the events the parser emits for the bytes fed, in order
C20_HistoryAppendOnly ==
    [][/\ IsPrefix(all_events, all_events')
       /\ IsPrefix(all_events', Emitted(NewParser, <<>>, fed'))]_vars

C20_Witness ==
    /\ Len(all_events) = 3
    /\ all_events[1].type = "Print"
    /\ all_events[2].type = "Execute"
    /\ all_events[3].type = "Print"
    /\ \E s \in Subs : subPc[s] = "recv"

\* --------------------------------------------------------------------- C21
\* C21 as stated: while the callbacks of one byte are being logged the window
\* is left alone, so that all of them are tagged with the same window and it
\* is cleared once for the group
C21_WindowClearedOncePerGroup ==
    [][(outPc = "testlog" /\ outPc' = "testlog") => curr_cmd_bytes' = curr_cmd_bytes]_vars

\* C21: every call of log() tags its event with the window as it stands and
\* clears it, so of the callbacks of one byte the first takes the bytes
\* accumulated since the previous emission and each later one finds the window
\* empty; feeding a byte appends it to the window, which therefore keeps
\* accumulating while no callback is made
C21_FirstActionTakesWindow ==
    [][/\ outPc = "testlog" =>
            /\ all_events' = Append(all_events, MakeEvent(Head(pend), curr_cmd_bytes))
            /\ windows' = Append(windows, curr_cmd_bytes)
            /\ curr_cmd_bytes' = <<>>
       /\ (outPc = "test" /\ rest # <<>>) =>
            /\ curr_cmd_bytes' = Append(curr_cmd_bytes, Head(rest))
            /\ windows' = windows]_vars

\* ESC ] CAN: the CAN byte ends the OSC string and is executed, two callbacks
\* for one byte; the first was logged with the three bytes, the second with
\* an empty window
C21_Witness ==
    /\ fed = <<ESC, 93, 24>>
    /\ outPc = "test"
    /\ Len(all_events) = 2
    /\ all_events[1].type = "OscDispatch"
    /\ all_events[2].type = "Execute"
    /\ windows = << <<ESC, 93, 24>>, <<>> >>

\* --------------------------------------------------------------------- C22
\* C22: in Phase B a Print received while the batch ends in a Print is appended
\* to that element's string and every other event is pushed as a new element;
\* the batch and every live frame hold no two adjacent Prints; and the live
\* frames followed by the batch, taken character by character, are the events
\* received, in arrival order
C22_LiveCoalescing ==
    [][\A s \in Subs :
          /\ (/\ subPc[s] = "recv"
              /\ Len(recvd'[s]) = Len(recvd[s]) + 1
              /\ recvd'[s][Len(recvd'[s])] # Lagged) =>
                LET e == published[recvd'[s][Len(recvd'[s])]]
                    b == batch[s]
                IN  IF e.type = "Print" /\ b # <<>> /\ b[Len(b)].type = "Print"
                    THEN batch'[s] = [b EXCEPT ![Len(b)].string = @ \o e.string]
                    ELSE batch'[s] = Append(b, e)
          /\ NoAdjacentPrints(batch'[s])
          /\ \A i \in 1..Len(frames'[s]) :
                frames'[s][i].phase = "B" => NoAdjacentPrints(frames'[s][i].events)
          /\ FrameEvents(frames'[s], "B") \o Expand(batch'[s])
                = [i \in 1..Len(Received(recvd'[s])) |->
                       published'[Received(recvd'[s])[i]]]]_vars

\* two Prints were received one after the other and make one element of the
\* batch, and the line break received after them is an element of its own
C22_Witness ==
    \E s \in Subs :
       /\ subPc[s] \in {"recv", "check"}
       /\ Len(Received(recvd[s])) = 3
       /\ Len(batch[s]) = 2
       /\ batch[s][1] = [type |-> "Print", string |-> <<97, 97>>]
       /\ batch[s][2].type = "LineBreak"

\* --------------------------------------------------------------------- C23
\* C23: the output worker never waits on a lock: whenever it is about to
\* append an event to the history, the history lock is free, so no subscriber
\* holding it for a replay can keep the worker from parsing and forwarding
C23_OutputWorkerNeverWaitsOnLock ==
    outPc = "push" => lock = 0

\* --------------------------------------------------------------------- C24
\* C24: when tx.send fails because no receiver is subscribed, log() goes on:
\* the event is then appended to the history, the window is cleared, and the
\* thread proceeds to the next callback or the next byte
C24_PublishFailureIgnored ==
    [][/\ (outPc = "send" /\ NoReceiver /\ outPc' # "send") =>
            /\ outPc' = "push"
            /\ ev' = MakeEvent(Head(pend), curr_cmd_bytes)
            /\ rx' = rx
       /\ (outPc = "push" /\ outPc' # "push") =>
            /\ all_events' = Append(all_events, ev)
            /\ curr_cmd_bytes' = <<>>
            /\ outPc' \in {"feed", "send"}]_vars

\* nobody ever subscribed, every send failed, and the three events of the
\* three bytes fed are in the history
C24_Witness ==
    /\ \A s \in Subs : subPc[s] = "idle"
    /\ NoReceiver
    /\ Len(fed) = 3
    /\ Len(published) = 3
    /\ Len(all_events) = 3
    /\ curr_cmd_bytes = <<>>
    /\ outPc = "feed"

\* --------------------------------------------------------------------- C25
\* C25: what has been written to stdout and to the recording file is always a
\* prefix of the bytes read from the PTY master (the recording stays empty
\* without --log-to-file); while a chunk is being processed the bytes on
\* stdout followed by the chunk are the bytes read; and between two chunks
\* stdout, and the recording when there is one, hold exactly the bytes read,
\* so every processed chunk is in both once with nothing added
C25_OutputsArePrefixesOfRead ==
    /\ IsPrefix(stdoutBytes, ptyRead)
    /\ IsPrefix(recording, ptyRead)
    /\ IsPrefix(recording, stdoutBytes)
    /\ ~log_to_file => recording = <<>>
    /\ outPc \in {"feed", "send", "push"} => stdoutBytes \o bytes = ptyRead
    /\ outPc = "read" =>
          /\ stdoutBytes = ptyRead
          /\ log_to_file => recording = ptyRead

\* with --log-to-file, two chunks or more (three bytes, chunks of at most
\* MaxChunk) have been read, parsed, written to stdout and recorded, and the
\* thread is back at the read
C25_Witness ==
    /\ log_to_file
    /\ outPc = "read"
    /\ Len(ptyRead) = 3
    /\ stdoutBytes = ptyRead
    /\ recording = ptyRead

\* --------------------------------------------------------------------- C26
\* C26: no event that was replayed to a subscriber from the history is
\* received by it, or waiting for it, on the live channel (the n-th event
\* logged is the n-th of the history and the n-th published)
C26_NoEventDeliveredTwice ==
    \A s \in Subs :
       \A n \in 1..replayAt[s] :
          /\ ~Contains(recvd[s], n)
          /\ \A i \in 1..Len(rx[s].q) : rx[s].q[i].n # n

\* a subscriber was replayed a non-empty history and has since received an
\* event live
C26_Witness ==
    \E s \in Subs :
       /\ replayAt[s] >= 1
       /\ replayAt[s] = Len(snapshot[s])
       /\ Received(recvd[s]) # <<>>

C28_RawWhileRunning ==
    Running => rawMode

============================================================================
